---- MODULE Spec2Model ----
(***************************************************************************)
(* A model of app.py: the discovery of the dates available for a Landsat   *)
(* path/row tile in an S3 bucket (list_available_dates), the construction  *)
(* of one copy task per tile and date (build_s3_cmd), and the execution of *)
(* the tasks one after the other or on a thread pool (download_dea_data,   *)
(* run_download).                                                          *)
(*                                                                         *)
(* A Python str is modelled as a sequence of one-character strings, so     *)
(* that slicing, comparison, padding, splitting and joining are computed   *)
(* the way Python computes them.                                           *)
(***************************************************************************)
EXTENDS Integers, Sequences, FiniteSets, TLC

VARIABLES
    paths,          \* download_dea_data's argument paths: a list of str
    rows,           \* its argument rows: a list of str
    start_date,     \* its argument start_date
    end_date,       \* its argument end_date
    multithread,    \* its argument multithread, drawn where it is first read (line 87)
    max_workers,    \* its argument max_workers, drawn where it is first read (line 88)
    store,          \* the objects of the bucket, each the segments of its key
    pc,             \* where the run stands
    tileIdx,        \* how many (path, row) pairs of the nested loops are done
    dates,          \* the value list_available_dates returned last
    lsNonzero,      \* the prefixes whose listing exits non-zero in the scan under way
    lsOSError,      \* the prefixes whose listing cannot be invoked in the scan under way
    lsCalls,        \* the prefixes list_s3 was called with in the scan under way
    tasks,          \* the list tasks of download_dea_data
    console,        \* what has been printed, in order
    copyResult,     \* the outcome of the copy of each task, "none" until it ends
    status,         \* where each task stands
    seqIdx,         \* the index i of the sequential loop
    submitted,      \* how many tasks have been handed to the executor
    numThreads,     \* the worker threads the executor has started
    idleSem,        \* the executor's idle semaphore
    yielded,        \* the futures as_completed has handed out
    pendingExc      \* whether an exception is propagating in the main thread

vars == <<paths, rows, start_date, end_date, multithread, max_workers, store,
          pc, tileIdx, dates, lsNonzero, lsOSError, lsCalls, tasks,
          console, copyResult, status, seqIdx, submitted, numThreads, idleSem,
          yielded, pendingExc>>

----------------------------------------------------------------------------
(* Python str operations                                                   *)

\* The characters the model compares, in code point order.
Ascii == <<"\n", " ", "+", "-", ".", "/", "0", "1", "2", "3", "4", "5", "6",
           "7", "8", "9", ":", "E", "P", "R", "_", "a", "d", "e", "f", "s",
           "t">>

Ord(c) == CHOOSE i \in 1..Len(Ascii) : Ascii[i] = c

Digits == {"0", "1", "2", "3", "4", "5", "6", "7", "8", "9"}

DigitVal(c) == Ord(c) - Ord("0")

Whitespace == {" ", "\n"}

\* a < b on str: the first differing code point decides, a proper prefix is less.
RECURSIVE StrLT(_, _)
StrLT(a, b) ==
    IF b = <<>> THEN FALSE
    ELSE IF a = <<>> THEN TRUE
    ELSE IF a[1] = b[1] THEN StrLT(Tail(a), Tail(b))
    ELSE Ord(a[1]) < Ord(b[1])

\* a <= b on str
StrLE(a, b) == a = b \/ StrLT(a, b)

\* lo <= x <= hi, Python's chained comparison
Between(lo, x, hi) == StrLE(lo, x) /\ StrLE(x, hi)

\* s[:n]
Slice(s, n) == SubSeq(s, 1, IF n < Len(s) THEN n ELSE Len(s))

\* c in s, for a one-character c
Contains(s, c) == \E i \in 1..Len(s) : s[i] = c

RECURSIVE FirstInFrom(_, _, _)
FirstInFrom(s, cs, i) ==
    IF i > Len(s) \/ s[i] \in cs THEN i ELSE FirstInFrom(s, cs, i + 1)

\* the index of the first character of s that is in cs, or Len(s) + 1
FirstIn(s, cs) == FirstInFrom(s, cs, 1)

RECURSIVE LStrip(_, _)
LStrip(s, cs) == IF s # <<>> /\ s[1] \in cs THEN LStrip(Tail(s), cs) ELSE s

RECURSIVE RStrip(_, _)
RStrip(s, cs) ==
    IF s # <<>> /\ s[Len(s)] \in cs THEN RStrip(SubSeq(s, 1, Len(s) - 1), cs) ELSE s

\* s.strip(cs)
StripChars(s, cs) == RStrip(LStrip(s, cs), cs)

\* s.split(): the words between runs of whitespace
RECURSIVE SplitWs(_)
SplitWs(s) ==
    LET t == LStrip(s, Whitespace)
        n == FirstIn(t, Whitespace)
    IN  IF t = <<>> THEN <<>>
        ELSE <<SubSeq(t, 1, n - 1)>> \o SplitWs(SubSeq(t, n, Len(t)))

\* s.split(c)
RECURSIVE SplitOn(_, _)
SplitOn(s, c) ==
    LET n == FirstIn(s, {c})
    IN  IF n > Len(s) THEN <<s>>
        ELSE <<SubSeq(s, 1, n - 1)>> \o SplitOn(SubSeq(s, n + 1, Len(s)), c)

\* s.splitlines()
RECURSIVE SplitLines(_)
SplitLines(s) ==
    LET n == FirstIn(s, {"\n"})
    IN  IF s = <<>> THEN <<>>
        ELSE IF n > Len(s) THEN <<s>>
        ELSE <<SubSeq(s, 1, n - 1)>> \o SplitLines(SubSeq(s, n + 1, Len(s)))

\* sep.join(parts)
RECURSIVE JoinWith(_, _)
JoinWith(parts, sep) ==
    IF parts = <<>> THEN <<>>
    ELSE IF Len(parts) = 1 THEN parts[1]
    ELSE parts[1] \o sep \o JoinWith(Tail(parts), sep)

\* s.zfill(w)
Zfill(s, w) ==
    LET zeros == [i \in 1..(w - Len(s)) |-> "0"]
    IN  IF Len(s) >= w THEN s
        ELSE IF s # <<>> /\ s[1] \in {"+", "-"} THEN <<s[1]>> \o zeros \o Tail(s)
        ELSE zeros \o s

StartsWith(s, p) == Len(p) <= Len(s) /\ SubSeq(s, 1, Len(p)) = p

\* sorted(xs) for a list of str
RECURSIVE SortedInsert(_, _)
SortedInsert(x, xs) ==
    IF xs = <<>> THEN <<x>>
    ELSE IF StrLT(x, xs[1]) THEN <<x>> \o xs
    ELSE <<xs[1]>> \o SortedInsert(x, Tail(xs))

RECURSIVE Sorted(_)
Sorted(xs) ==
    IF xs = <<>> THEN <<>>
    ELSE SortedInsert(xs[Len(xs)], Sorted(SubSeq(xs, 1, Len(xs) - 1)))

----------------------------------------------------------------------------
(* The bucket and `aws s3 ls`                                              *)

\* base_url, as the caller passes it (no trailing slash)
base_url == <<"s", "3", ":", "/", "/", "d", "e", "a">>

\* output_dir, the default of download_dea_data
output_dir == <<".", "/", "d", "e", "a", "_", "d", "a", "t", "a">>

\* The URL of an object: the segments of its key under base_url.
ObjectUrl(o) == base_url \o <<"/">> \o JoinWith(o, <<"/">>)

\* What follows prefix in the URLs of the objects under it.
Remainders(prefix, st) ==
    {SubSeq(ObjectUrl(o), Len(prefix) + 1, Len(ObjectUrl(o))) :
        o \in {x \in st : StartsWith(ObjectUrl(x), prefix)
                          /\ Len(ObjectUrl(x)) > Len(prefix)}}

\* The common prefixes (sub-directories) right under prefix, each with its "/".
CommonPrefixes(prefix, st) ==
    {SubSeq(r, 1, FirstIn(r, {"/"})) :
        r \in {x \in Remainders(prefix, st) : Contains(x, "/")}}

\* The objects right under prefix.
ObjectNames(prefix, st) == {r \in Remainders(prefix, st) : ~Contains(r, "/")}

RECURSIVE Ascending(_)
Ascending(S) ==
    IF S = {} THEN <<>>
    ELSE LET m == CHOOSE x \in S : \A y \in S : StrLE(x, y)
         IN  <<m>> \o Ascending(S \ {m})

Reverse(xs) == [i \in 1..Len(xs) |-> xs[Len(xs) + 1 - i]]

\* The names of a set in the order the service lists them.
Listed(S, order) == IF order = "asc" THEN Ascending(S) ELSE Reverse(Ascending(S))

\* A line of `aws s3 ls` for a common prefix: "PRE name/", right-aligned.
PreLine(name) == [i \in 1..27 |-> " "] \o <<"P", "R", "E", " ">> \o name

\* A line of `aws s3 ls` for an object: date, time, size, name.
ObjLine(name) ==
    <<"2", "0", "2", "5", "-", "0", "6", "-", "0", "3", " ",
      "1", "0", ":", "0", "0", ":", "0", "0", " ",
      " ", " ", " ", " ", " ", " ", "1", "0", "2", "4", " ">> \o name

RECURSIVE Unlines(_)
Unlines(lines) ==
    IF lines = <<>> THEN <<>> ELSE lines[1] \o <<"\n">> \o Unlines(Tail(lines))

\* The standard output of `aws s3 ls prefix --no-sign-request`.
AwsLsStdout(prefix, st, order) ==
    LET pres == Listed(CommonPrefixes(prefix, st), order)
        objs == Listed(ObjectNames(prefix, st), order)
    IN  Unlines([i \in 1..Len(pres) |-> PreLine(pres[i])]
                \o [i \in 1..Len(objs) |-> ObjLine(objs[i])])

\* Its exit status: 1 when nothing is under the prefix.
AwsLsReturncode(prefix, st) == IF Remainders(prefix, st) = {} THEN 1 ELSE 0

----------------------------------------------------------------------------
(* list_available_dates                                                    *)

\* The outcomes of invoking a subprocess: it exits 0, it exits non-zero, or
\* subprocess.run raises OSError because the program cannot be started.
Outcomes == {"ok", "nonzero", "oserror"}

\* list_s3(prefix): the lines of the listing, [] on a non-zero exit status;
\* an OSError of subprocess.run is not caught and leaves the function.
\* env is the bucket and what the environment does to the listing calls.
ListS3(prefix, env) ==
    IF prefix \in env.oserror THEN [raised |-> TRUE, lines |-> <<>>]
    ELSE [raised |-> FALSE,
          lines |-> IF prefix \notin env.nonzero /\ AwsLsReturncode(prefix, env.store) = 0
                    THEN SplitLines(AwsLsStdout(prefix, env.store, env.order))
                    ELSE <<>>]

\* A comprehension without a test: every line of the listing gives a key.
IsAnyLine(line) == TRUE

\* the test of the comprehensions: '/' in line
IsKeyLine(line) == Contains(line, "/")

\* [line.strip().split()[-1].strip('/') for line in lines if '/' in line]
Keys(lines) ==
    LET kept == SelectSeq(lines, IsKeyLine)
        words(l) == SplitWs(StripChars(l, Whitespace))
    IN  [i \in 1..Len(kept) |->
            StripChars(words(kept[i])[Len(words(kept[i]))], {"/"})]

Dash == <<"-">>

\* the test of a year: start_date[:4] <= year <= end_date[:4]
KeepYear(year, s, e) == Between(Slice(s, 4), year, Slice(e, 4))

\* A loop over months without a test: every month of a kept year is listed.
KeepAnyMonth(year, month, s, e) == TRUE

\* the test of a month: start_date[:7] <= f"{year}-{month}" <= end_date[:7]
KeepMonth(year, month, s, e) == Between(Slice(s, 7), year \o Dash \o month, Slice(e, 7))

\* A test of a day that leaves end_date itself out: start_date <= date_str < end_date.
KeepDayBeforeEnd(date_str, s, e) == StrLE(s, date_str) /\ StrLT(date_str, e)

\* the test of a day: start_date <= date_str <= end_date
KeepDay(date_str, s, e) == Between(s, date_str, e)

\* the loop over days: the dates of one month that are appended
DayLoop(year, month, days, s, e) ==
    LET date_str(day) == year \o Dash \o month \o Dash \o day
        all == [i \in 1..Len(days) |-> date_str(days[i])]
        keep(d) == KeepDay(d, s, e)
    IN  SelectSeq(all, keep)

NoDates == [raised |-> FALSE, dates |-> <<>>, calls |-> <<>>]

\* One kept month: its listing ls, its days, then the months after it (rest).
\* An exception of the listing ends the scan.
MonthStep(month_prefix, year, month, ls, rest, s, e) ==
    IF ls.raised
    THEN [raised |-> TRUE, dates |-> <<>>, calls |-> <<month_prefix>>]
    ELSE [raised |-> rest.raised,
          dates |-> DayLoop(year, month, Keys(ls.lines), s, e) \o rest.dates,
          calls |-> <<month_prefix>> \o rest.calls]

\* the loop over months of one year, from the i-th month on
RECURSIVE MonthLoop(_, _, _, _, _, _, _)
MonthLoop(year_prefix, year, months, i, s, e, env) ==
    IF i > Len(months) THEN NoDates
    ELSE IF ~KeepMonth(year, months[i], s, e)
    THEN MonthLoop(year_prefix, year, months, i + 1, s, e, env)
    ELSE MonthStep(year_prefix \o months[i] \o <<"/">>, year, months[i],
                   ListS3(year_prefix \o months[i] \o <<"/">>, env),
                   MonthLoop(year_prefix, year, months, i + 1, s, e, env), s, e)

\* One kept year: its months (inner), then the years after it (rest).
YearStep(year_prefix, inner, rest) ==
    IF inner.raised
    THEN [raised |-> TRUE, dates |-> <<>>, calls |-> <<year_prefix>> \o inner.calls]
    ELSE [raised |-> rest.raised,
          dates |-> inner.dates \o rest.dates,
          calls |-> <<year_prefix>> \o inner.calls \o rest.calls]

\* The months of one year, its listing being ls.
YearMonths(year_prefix, year, ls, s, e, env) ==
    IF ls.raised THEN [raised |-> TRUE, dates |-> <<>>, calls |-> <<>>]
    ELSE MonthLoop(year_prefix, year, Keys(ls.lines), 1, s, e, env)

\* the loop over years, from the i-th year on
RECURSIVE YearLoop(_, _, _, _, _, _)
YearLoop(prefix, years, i, s, e, env) ==
    IF i > Len(years) THEN NoDates
    ELSE IF ~KeepYear(years[i], s, e)
    THEN YearLoop(prefix, years, i + 1, s, e, env)
    ELSE YearStep(prefix \o years[i] \o <<"/">>,
                  YearMonths(prefix \o years[i] \o <<"/">>, years[i],
                             ListS3(prefix \o years[i] \o <<"/">>, env), s, e, env),
                  YearLoop(prefix, years, i + 1, s, e, env))

\* f"{base_url}/{path.zfill(3)}/{row.zfill(3)}/"
TilePrefix(path, row) ==
    base_url \o <<"/">> \o Zfill(path, 3) \o <<"/">> \o Zfill(row, 3) \o <<"/">>

\* The years of the tile, its listing being ls, and sorted(dates).
TileYears(prefix, ls, s, e, env) ==
    IF ls.raised THEN [raised |-> TRUE, dates |-> <<>>, calls |-> <<>>]
    ELSE YearLoop(prefix, Keys(ls.lines), 1, s, e, env)

\* A return of the dates in the order in which they were appended: `return dates`.
ReturnAsAppended(prefix, loop) ==
    [raised |-> loop.raised,
     dates |-> IF loop.raised THEN <<>> ELSE loop.dates,
     calls |-> <<prefix>> \o loop.calls]

ReturnSorted(prefix, loop) ==
    [raised |-> loop.raised,
     dates |-> IF loop.raised THEN <<>> ELSE Sorted(loop.dates),
     calls |-> <<prefix>> \o loop.calls]

\* list_available_dates(path, row, base_url, start_date, end_date): the list
\* it returns, whether it was left by an exception instead, and the listing
\* calls it made.
ListAvailableDates(path, row, s, e, env) ==
    ReturnSorted(TilePrefix(path, row),
                 TileYears(TilePrefix(path, row), ListS3(TilePrefix(path, row), env),
                           s, e, env))

----------------------------------------------------------------------------
(* datetime.strptime(d, "%Y-%m-%d")                                        *)

IsDigits(s) == \A i \in 1..Len(s) : s[i] \in Digits

RECURSIVE IntOf(_)
IntOf(s) == IF s = <<>> THEN 0 ELSE 10 * IntOf(SubSeq(s, 1, Len(s) - 1)) + DigitVal(s[Len(s)])

IsLeap(y) == (y % 4 = 0 /\ y % 100 # 0) \/ y % 400 = 0

DaysInMonth(y, m) ==
    IF m = 2 THEN (IF IsLeap(y) THEN 29 ELSE 28)
    ELSE IF m \in {4, 6, 9, 11} THEN 30 ELSE 31

\* %Y is \d\d\d\d
MatchesY(s) == Len(s) = 4 /\ IsDigits(s)

\* %m is 1[0-2]|0[1-9]|[1-9]
MatchesM(s) == Len(s) \in {1, 2} /\ IsDigits(s) /\ IntOf(s) \in 1..12

\* %d is 3[0-1]|[1-2]\d|0[1-9]|[1-9]| [1-9]
MatchesD(s) ==
    \/ Len(s) \in {1, 2} /\ IsDigits(s) /\ IntOf(s) \in 1..31
    \/ Len(s) = 2 /\ s[1] = " " /\ s[2] \in Digits \ {"0"}

\* Whether strptime returns a datetime for d; otherwise it raises ValueError:
\* the string does not match the format, or names no day of the calendar.
StrptimeOk(d) ==
    LET p == SplitOn(d, "-")
    IN  /\ Len(p) = 3
        /\ MatchesY(p[1]) /\ MatchesM(p[2]) /\ MatchesD(p[3])
        /\ IntOf(p[1]) >= 1
        /\ IntOf(StripChars(p[3], {" "})) <= DaysInMonth(IntOf(p[1]), IntOf(p[2]))

----------------------------------------------------------------------------
(* build_s3_cmd                                                            *)

\* os.path.join(a, *parts) of posixpath
RECURSIVE PathJoin(_, _)
PathJoin(a, parts) ==
    IF parts = <<>> THEN a
    ELSE LET b == parts[1]
         IN  PathJoin(IF b # <<>> /\ b[1] = "/" THEN b
                      ELSE IF a = <<>> \/ a[Len(a)] = "/" THEN a \o b
                      ELSE a \o <<"/">> \o b,
                      Tail(parts))

\* A source built from path and row as given: f"{base_url}/{path}/{row}/{y}/{m}/{d}/".
S3PathUnpadded(path, row, ymd) ==
    base_url \o <<"/">> \o path \o <<"/">> \o row \o <<"/">>
        \o ymd[1] \o <<"/">> \o ymd[2] \o <<"/">> \o ymd[3] \o <<"/">>

\* s3_path = f"{base_url}/{path.zfill(3)}/{row.zfill(3)}/{y}/{m}/{d}/"
S3Path(path, row, ymd) ==
    TilePrefix(path, row) \o ymd[1] \o <<"/">> \o ymd[2] \o <<"/">> \o ymd[3] \o <<"/">>

\* A destination that leaves the row out: os.path.join(output_dir, path, y, m, d).
LocalPathWithoutRow(path, row, ymd) == PathJoin(output_dir, <<path, ymd[1], ymd[2], ymd[3]>>)

\* local_path = os.path.join(output_dir, path, row, y, m, d)
LocalPath(path, row, ymd) == PathJoin(output_dir, <<path, row, ymd[1], ymd[2], ymd[3]>>)

\* build_s3_cmd(path, row, date, base_url, output_dir): the pair (cmd, s3_path),
\* cmd being `aws s3 cp s3_path local_path --recursive --no-sign-request`.
\* path, row and date record what the task was built for.
BuildS3Cmd(path, row, date) ==
    LET ymd == SplitOn(date, "-")
    IN  [cmd |-> [src |-> S3Path(path, row, ymd),
                  dst |-> LocalPath(path, row, ymd),
                  recursive |-> TRUE],
         s3_path |-> S3Path(path, row, ymd),
         path |-> path, row |-> row, date |-> date]

----------------------------------------------------------------------------
(* The inputs of the runs that are checked                                 *)

MaxObjects == 2      \* the most objects in the bucket
MaxWorkers == 2      \* the largest max_workers
MaxLsFailures == 1   \* the most listing calls that fail in one scan
MaxTasks == 2        \* the most tasks the inputs of a run can give rise to

P7 == <<"7">>
P100 == <<"1", "0", "0">>
R80 == <<"8", "0">>
R81 == <<"8", "1">>

PathChoices == {P7, P100}

\* The lists paths of a run: one path, a path twice, two paths in either order.
PathLists == {<<P7>>, <<P7, P7>>, <<P7, P100>>, <<P100, P7>>}

\* The lists rows of a run.
RowLists == {<<R80>>, <<R80, R81>>}

Y2024 == <<"2", "0", "2", "4">>
Y2025 == <<"2", "0", "2", "5">>

\* The key of an object f of the day y/m/d of the tile pp/rr.
Obj(pp, rr, y, m, d) == <<pp, rr, y, m, d, <<"f">>>>

T007 == <<"0", "0", "7">>
T080 == <<"0", "8", "0">>
T081 == <<"0", "8", "1">>

\* The objects the bucket of a run is drawn from: for the tile 007/080 a day
\* before the range, two days within it and a day that is on no calendar,
\* and a day within the range for a second row and for a second path.
RunObjects ==
    {Obj(T007, T080, Y2025, <<"0", "1">>, <<"0", "1">>),
     Obj(T007, T080, Y2025, <<"0", "1">>, <<"0", "3">>),
     Obj(T007, T080, Y2025, <<"0", "1">>, <<"0", "4">>),
     Obj(T007, T080, Y2025, <<"0", "2">>, <<"3", "0">>),
     Obj(T007, T081, Y2025, <<"0", "1">>, <<"0", "3">>),
     Obj(P100, T080, Y2025, <<"0", "1">>, <<"0", "3">>)}

Date(y, m, d) == y \o Dash \o m \o Dash \o d

\* The (start_date, end_date) pairs of a run: 2025-01-01 lies before, 2025-01-03
\* and 2025-02-30 lie within.
RunRanges ==
    {<<Date(Y2025, <<"0", "1">>, <<"0", "2">>), Date(Y2025, <<"1", "2">>, <<"3", "1">>)>>}

SetsUpTo(S, n) == {x \in SUBSET S : Cardinality(x) <= n}

\* The days of the bucket under the tile of path and row.
DaysOf(path, row, st) ==
    {<<o[3], o[4], o[5]>> :
        o \in {x \in st : Len(x) >= 6 /\ x[1] = Zfill(path, 3) /\ x[2] = Zfill(row, 3)}}

RECURSIVE SumOver(_, _)
SumOver(f, n) == IF n = 0 THEN 0 ELSE f[n] + SumOver(f, n - 1)

\* No more tasks than this can come of the inputs.
TaskBudget(ps, rs, st) ==
    SumOver([k \in 1..(Len(ps) * Len(rs)) |->
                Cardinality(DaysOf(ps[((k - 1) \div Len(rs)) + 1],
                                   rs[((k - 1) % Len(rs)) + 1], st))],
            Len(ps) * Len(rs))

----------------------------------------------------------------------------
(* download_dea_data                                                       *)

\* Loops that are left after the rows of the first path.
NumTilesOfFirstPath == Len(rows)

\* the passes of `for path in paths: for row in rows:`
NumTiles == Len(paths) * Len(rows)

\* the path and the row of the k-th pass of `for path in paths: for row in rows:`
PathAt(k) == paths[((k - 1) \div Len(rows)) + 1]
RowAt(k) == rows[((k - 1) % Len(rows)) + 1]

N == Len(tasks)

Terminal == {"Succeeded", "Failed"}

Running == {i \in 1..N : status[i] = "Running"}

Init ==
    /\ paths \in PathLists
    /\ rows \in RowLists
    /\ store \in SetsUpTo(RunObjects, MaxObjects)
    /\ TaskBudget(paths, rows, store) <= MaxTasks
    /\ \E r \in RunRanges : start_date = r[1] /\ end_date = r[2]
    /\ multithread = FALSE
    /\ max_workers = 1
    /\ pc = "scan"
    /\ tileIdx = 0
    /\ dates = <<>>
    /\ lsNonzero = {}
    /\ lsOSError = {}
    /\ lsCalls = <<>>
    /\ tasks = <<>>
    /\ console = <<>>
    /\ copyResult = <<>>
    /\ status = <<>>
    /\ seqIdx = 0
    /\ submitted = 0
    /\ numThreads = 0
    /\ idleSem = 0
    /\ yielded = {}
    /\ pendingExc = FALSE

Range(f) == {f[i] : i \in DOMAIN f}

\* The orders in which the service may list the keys under a prefix.
Orders == {"asc", "desc"}

\* The environment of a scan: the bucket, the order of its listings, and the
\* listing calls that exit non-zero or cannot be invoked.
Env(order, nz, oe) == [store |-> store, nonzero |-> nz, oserror |-> oe, order |-> order]

\* The listing calls a scan makes when none of them fails.
QuietCalls(path, row, order) ==
    Range(ListAvailableDates(path, row, start_date, end_date, Env(order, {}, {})).calls)

\* The ways at most MaxLsFailures of the calls C fail: those that exit
\* non-zero, those that cannot be invoked.
Failures(C) ==
    UNION {{<<nz, oe>> : oe \in SetsUpTo(C \ nz, MaxLsFailures - Cardinality(nz))} :
           nz \in SetsUpTo(C, MaxLsFailures)}

\* Lines 76-83 with a tile without dates treated as an error: after the
\* no-data notice the run is left by an exception.
ScanResultNoDataIsError(path, row, r) ==
    /\ lsCalls' = r.calls
    /\ IF r.raised
       THEN /\ pc' = "crashed"
            /\ console' = Append(console, <<"scan", path, row>>)
            /\ UNCHANGED <<dates, tasks, tileIdx>>
       ELSE /\ dates' = r.dates
            /\ IF r.dates = <<>>
               THEN /\ console' = console \o <<<<"scan", path, row>>, <<"nodata", path, row>>>>
                    /\ pc' = "crashed"
                    /\ UNCHANGED <<tasks, tileIdx>>
               ELSE IF \E i \in 1..Len(r.dates) : ~StrptimeOk(r.dates[i])
               THEN /\ pc' = "crashed"
                    /\ console' = Append(console, <<"scan", path, row>>)
                    /\ UNCHANGED <<tasks, tileIdx>>
               ELSE /\ console' = console \o <<<<"scan", path, row>>,
                                               <<"found", path, row, Len(r.dates)>>>>
                    /\ tasks' = tasks \o [i \in 1..Len(r.dates) |->
                                            BuildS3Cmd(path, row, r.dates[i])]
                    /\ tileIdx' = tileIdx + 1
                    /\ UNCHANGED pc

\* Lines 76-83 for one tile, r being what list_available_dates did: the
\* no-data notice, or strptime over the dates (line 79), the notice of the
\* dates found and one task per date. An exception ends the run.
ScanResult(path, row, r) ==
    /\ lsCalls' = r.calls
    /\ IF r.raised
       THEN /\ pc' = "crashed"
            /\ console' = Append(console, <<"scan", path, row>>)
            /\ UNCHANGED <<dates, tasks, tileIdx>>
       ELSE /\ dates' = r.dates
            /\ IF r.dates = <<>>
               THEN /\ console' = console \o <<<<"scan", path, row>>, <<"nodata", path, row>>>>
                    /\ tileIdx' = tileIdx + 1
                    /\ UNCHANGED <<pc, tasks>>
               ELSE IF \E i \in 1..Len(r.dates) : ~StrptimeOk(r.dates[i])
               THEN /\ pc' = "crashed"
                    /\ console' = Append(console, <<"scan", path, row>>)
                    /\ UNCHANGED <<tasks, tileIdx>>
               ELSE /\ console' = console \o <<<<"scan", path, row>>,
                                               <<"found", path, row, Len(r.dates)>>>>
                    /\ tasks' = tasks \o [i \in 1..Len(r.dates) |->
                                            BuildS3Cmd(path, row, r.dates[i])]
                    /\ tileIdx' = tileIdx + 1
                    /\ UNCHANGED pc

\* Lines 74-83 for one tile, the listings behaving as env says.
ScanWith(path, row, env) ==
    /\ lsNonzero' = env.nonzero
    /\ lsOSError' = env.oserror
    /\ ScanResult(path, row, ListAvailableDates(path, row, start_date, end_date, env))

\* One pass of the loops of lines 72-83.
ScanTile ==
    /\ pc = "scan"
    /\ tileIdx < NumTiles
    /\ \E order \in Orders :
         \E f \in Failures(QuietCalls(PathAt(tileIdx + 1), RowAt(tileIdx + 1), order)) :
            ScanWith(PathAt(tileIdx + 1), RowAt(tileIdx + 1), Env(order, f[1], f[2]))
    /\ UNCHANGED <<paths, rows, start_date, end_date, multithread, max_workers, store,
                   copyResult, status, seqIdx, submitted, numThreads, idleSem,
                   yielded, pendingExc>>

\* Line 85, and the executor of line 88 or the loop of line 93. Nothing
\* before line 87 reads multithread and max_workers: the run draws them here
\* (max_workers is not read by a sequential run).
StartDownloads ==
    /\ pc = "scan"
    /\ tileIdx = NumTiles
    /\ console' = Append(console, <<"start", N>>)
    /\ lsNonzero' = {} /\ lsOSError' = {} /\ lsCalls' = <<>>
    /\ copyResult' = [i \in 1..N |-> "none"]
    /\ status' = [i \in 1..N |-> "Pending"]
    /\ \/ multithread' = FALSE /\ max_workers' = 1 /\ pc' = "seq"
       \/ multithread' = TRUE /\ max_workers' \in 1..MaxWorkers /\ pc' = "submit"
    /\ seqIdx' = 1
    /\ UNCHANGED <<paths, rows, start_date, end_date, store, tileIdx, dates, tasks,
                   submitted, numThreads, idleSem, yielded, pendingExc>>

\* run_download up to the call of subprocess.run: the notice of line 60.
RunDownloadBegin(i) ==
    /\ status' = [status EXCEPT ![i] = "Running"]
    /\ console' = Append(console, <<"downloading", i>>)

\* A run_download that puts a task whose copy failed back in line for
\* another attempt.
RunDownloadEndRetry(i, out) ==
    /\ copyResult' = [copyResult EXCEPT ![i] = out]
    /\ status' = [status EXCEPT ![i] = IF out = "ok" THEN "Succeeded" ELSE "Pending"]
    /\ console' = IF out = "ok" THEN Append(console, <<"done", i>>)
                  ELSE IF out = "nonzero" THEN Append(console, <<"failed", i>>)
                  ELSE console

\* run_download from the end of subprocess.run, whose outcome is out: the
\* notice of line 63 on exit status 0, the notice of line 65 on
\* CalledProcessError; an OSError is not caught and leaves run_download.
RunDownloadEnd(i, out) ==
    /\ copyResult' = [copyResult EXCEPT ![i] = out]
    /\ status' = [status EXCEPT ![i] = IF out = "ok" THEN "Succeeded" ELSE "Failed"]
    /\ console' = IF out = "ok" THEN Append(console, <<"done", i>>)
                  ELSE IF out = "nonzero" THEN Append(console, <<"failed", i>>)
                  ELSE console

\* whether run_download(task i) was left by an exception
Raises(i) == copyResult[i] = "oserror"

\* Lines 93-95: the progress notice and the start of run_download.
SeqBegin ==
    /\ pc = "seq"
    /\ seqIdx <= N
    /\ status[seqIdx] = "Pending"
    /\ status' = [status EXCEPT ![seqIdx] = "Running"]
    /\ console' = console \o <<<<"progress", seqIdx, N>>, <<"downloading", seqIdx>>>>
    /\ UNCHANGED <<paths, rows, start_date, end_date, multithread, max_workers, store,
                   pc, tileIdx, dates, lsNonzero, lsOSError, lsCalls, tasks,
                   copyResult, seqIdx, submitted, numThreads, idleSem, yielded,
                   pendingExc>>

\* Line 95: run_download returns and the loop goes on, or the exception it
\* did not catch leaves the loop and download_dea_data.
SeqEnd ==
    /\ pc = "seq"
    /\ seqIdx <= N
    /\ status[seqIdx] = "Running"
    /\ \E out \in Outcomes :
         /\ RunDownloadEnd(seqIdx, out)
         /\ IF out = "oserror"
            THEN pc' = "crashed" /\ pendingExc' = TRUE /\ UNCHANGED seqIdx
            ELSE seqIdx' = seqIdx + 1 /\ UNCHANGED <<pc, pendingExc>>
    /\ UNCHANGED <<paths, rows, start_date, end_date, multithread, max_workers, store,
                   tileIdx, dates, lsNonzero, lsOSError, lsCalls, tasks,
                   submitted, numThreads, idleSem, yielded>>

\* The loop of line 93 is exhausted: download_dea_data returns.
SeqReturn ==
    /\ pc = "seq"
    /\ seqIdx > N
    /\ pc' = "done"
    /\ UNCHANGED <<paths, rows, start_date, end_date, multithread, max_workers, store,
                   tileIdx, dates, lsNonzero, lsOSError, lsCalls, tasks, console,
                   copyResult, status, seqIdx, submitted, numThreads, idleSem,
                   yielded, pendingExc>>

\* An executor that starts a thread for every work item, whatever max_workers.
ThreadsAfterSubmitUnbounded(n) == n + 1

\* _adjust_thread_count of the executor, no thread being idle: a thread is
\* started unless max_workers threads exist.
ThreadsAfterSubmit(n) == IF n < max_workers THEN n + 1 ELSE n

\* Line 89, one executor.submit: the work item is queued, and a thread is
\* started unless one is idle or max_workers threads exist.
Submit ==
    /\ pc = "submit"
    /\ submitted < N
    /\ submitted' = submitted + 1
    /\ IF idleSem > 0
       THEN idleSem' = idleSem - 1 /\ UNCHANGED numThreads
       ELSE numThreads' = ThreadsAfterSubmit(numThreads) /\ UNCHANGED idleSem
    /\ UNCHANGED <<paths, rows, start_date, end_date, multithread, max_workers, store,
                   pc, tileIdx, dates, lsNonzero, lsOSError, lsCalls, tasks, console,
                   copyResult, status, seqIdx, yielded, pendingExc>>

\* Line 89 is done: every task is submitted, as_completed starts.
AllSubmitted ==
    /\ pc = "submit"
    /\ submitted = N
    /\ pc' = "await"
    /\ UNCHANGED <<paths, rows, start_date, end_date, multithread, max_workers, store,
                   tileIdx, dates, lsNonzero, lsOSError, lsCalls, tasks, console,
                   copyResult, status, seqIdx, submitted, numThreads, idleSem,
                   yielded, pendingExc>>

PoolPhase == pc \in {"submit", "await", "shutdown"}

\* The work item at the head of the executor's queue.
QueueHead == Cardinality({i \in 1..N : status[i] # "Pending"}) + 1

\* A worker thread that has no work item takes the head of the queue and
\* starts run_download on it.
WorkerCanTake == Cardinality(Running) < numThreads

WorkerBegin ==
    /\ PoolPhase
    /\ QueueHead <= submitted
    /\ WorkerCanTake
    /\ RunDownloadBegin(QueueHead)
    /\ UNCHANGED <<paths, rows, start_date, end_date, multithread, max_workers, store,
                   pc, tileIdx, dates, lsNonzero, lsOSError, lsCalls, tasks,
                   copyResult, seqIdx, submitted, numThreads, idleSem, yielded,
                   pendingExc>>

\* run_download ends in a worker thread: the future gets its result or the
\* exception, and the thread reports itself idle.
WorkerEnd(i) ==
    /\ PoolPhase
    /\ status[i] = "Running"
    /\ \E out \in Outcomes : RunDownloadEnd(i, out)
    /\ idleSem' = idleSem + 1
    /\ UNCHANGED <<paths, rows, start_date, end_date, multithread, max_workers, store,
                   pc, tileIdx, dates, lsNonzero, lsOSError, lsCalls, tasks,
                   seqIdx, submitted, numThreads, yielded, pendingExc>>

\* Lines 90-91: as_completed hands out a finished future and future.result()
\* returns, or raises the exception run_download was left by.
AwaitResult(i) ==
    /\ pc = "await"
    /\ i \notin yielded
    /\ status[i] \in Terminal
    /\ yielded' = yielded \cup {i}
    /\ IF Raises(i)
       THEN pc' = "shutdown" /\ pendingExc' = TRUE
       ELSE UNCHANGED <<pc, pendingExc>>
    /\ UNCHANGED <<paths, rows, start_date, end_date, multithread, max_workers, store,
                   tileIdx, dates, lsNonzero, lsOSError, lsCalls, tasks, console,
                   copyResult, status, seqIdx, submitted, numThreads, idleSem>>

\* as_completed is exhausted: the with block ends.
AwaitDone ==
    /\ pc = "await"
    /\ yielded = 1..N
    /\ pc' = "shutdown"
    /\ UNCHANGED <<paths, rows, start_date, end_date, multithread, max_workers, store,
                   tileIdx, dates, lsNonzero, lsOSError, lsCalls, tasks, console,
                   copyResult, status, seqIdx, submitted, numThreads, idleSem,
                   yielded, pendingExc>>

\* shutdown(wait=False): the executor's __exit__ does not wait for its threads.
ThreadsNotJoined == TRUE

\* shutdown(wait=True, cancel_futures=True): the queued work items are
\* cancelled and the threads are joined once no work item runs.
ThreadsJoinedQueueCancelled == \A i \in 1..N : status[i] # "Running"

\* shutdown(wait=True) joins the worker threads, which end once the queue is
\* empty and no work item runs.
ThreadsJoined == \A i \in 1..N : status[i] \in Terminal

\* The executor's __exit__, shutdown(wait=True): the threads run what is
\* queued and are joined; then download_dea_data returns, or the exception
\* of future.result() leaves it.
Shutdown ==
    /\ pc = "shutdown"
    /\ ThreadsJoined
    /\ pc' = IF pendingExc THEN "crashed" ELSE "done"
    /\ UNCHANGED <<paths, rows, start_date, end_date, multithread, max_workers, store,
                   tileIdx, dates, lsNonzero, lsOSError, lsCalls, tasks, console,
                   copyResult, status, seqIdx, submitted, numThreads, idleSem,
                   yielded, pendingExc>>

Next ==
    \/ ScanTile
    \/ StartDownloads
    \/ SeqBegin
    \/ SeqEnd
    \/ SeqReturn
    \/ Submit
    \/ AllSubmitted
    \/ WorkerBegin
    \/ \E i \in 1..N : WorkerEnd(i)
    \/ \E i \in 1..N : AwaitResult(i)
    \/ AwaitDone
    \/ Shutdown

Spec == Init /\ [][Next]_vars

\* A step of the executor's block (lines 88-91): of the submitting thread or
\* of a worker thread.
PoolStep ==
    \/ Submit
    \/ AllSubmitted
    \/ WorkerBegin
    \/ \E i \in 1..N : WorkerEnd(i)
    \/ \E i \in 1..N : AwaitResult(i)
    \/ AwaitDone
    \/ Shutdown

\* In the executor's block every thread that can take a step eventually takes
\* one, and every copy that was started ends.
FairSpec == Spec /\ WF_vars(PoolStep)

----------------------------------------------------------------------------
(* list_available_dates called on its own                                 *)

MaxDiscObjects == 3  \* the most objects in the bucket of a discovery

M01 == <<"0", "1">>
D01 == <<"0", "1">>
D03 == <<"0", "3">>

\* The objects the bucket of a discovery is drawn from: days before, within
\* and after the ranges, a day that is on no calendar, keys that are not
\* zero-padded, a year of two digits, objects that lie beside the year and
\* the day prefixes, and a day of another tile.
DiscObjects ==
    {Obj(T007, T080, Y2024, <<"1", "2">>, <<"3", "1">>),
     Obj(T007, T080, Y2025, M01, D01),
     Obj(T007, T080, Y2025, M01, D03),
     Obj(T007, T080, Y2025, <<"0", "2">>, <<"3", "0">>),
     Obj(T007, T080, Y2025, <<"1">>, <<"5">>),
     Obj(T007, T080, Y2025, <<"1", "2">>, <<"3", "1">>),
     Obj(T007, T080, <<"2", "5">>, M01, D01),
     <<T007, T080, Y2025>>,
     <<T007, T080, Y2025, M01, <<"0", "2">>>>,
     Obj(P100, T080, Y2025, M01, D01)}

\* The start and end dates of a discovery.
DiscDates ==
    {Date(Y2024, <<"1", "2">>, <<"3", "1">>), Date(Y2025, M01, D01),
     Date(Y2025, M01, D03), Date(Y2025, <<"1", "2">>, <<"3", "1">>)}

InitDisc ==
    /\ \E p \in PathChoices : paths = <<p>>
    /\ rows = <<R80>>
    /\ store \in SetsUpTo(DiscObjects, MaxDiscObjects)
    /\ start_date \in DiscDates
    /\ end_date \in DiscDates
    /\ multithread = FALSE
    /\ max_workers = 1
    /\ pc = "call"
    /\ tileIdx = 0
    /\ dates = <<>>
    /\ lsNonzero = {}
    /\ lsOSError = {}
    /\ lsCalls = <<>>
    /\ tasks = <<>>
    /\ console = <<>>
    /\ copyResult = <<>>
    /\ status = <<>>
    /\ seqIdx = 0
    /\ submitted = 0
    /\ numThreads = 0
    /\ idleSem = 0
    /\ yielded = {}
    /\ pendingExc = FALSE

\* The end of the call, r being what list_available_dates did.
DiscoverResult(r) ==
    /\ lsCalls' = r.calls
    /\ dates' = r.dates
    /\ pc' = IF r.raised THEN "raised" ELSE "returned"

\* list_available_dates(paths[0], rows[0], base_url, start_date, end_date),
\* the listings behaving as env says.
DiscoverWith(env) ==
    /\ lsNonzero' = env.nonzero
    /\ lsOSError' = env.oserror
    /\ DiscoverResult(ListAvailableDates(paths[1], rows[1], start_date, end_date, env))

Discover ==
    /\ pc = "call"
    /\ \E order \in Orders :
         \E f \in Failures(QuietCalls(paths[1], rows[1], order)) :
            DiscoverWith(Env(order, f[1], f[2]))
    /\ UNCHANGED <<paths, rows, start_date, end_date, multithread, max_workers, store,
                   tileIdx, tasks, console, copyResult, status, seqIdx, submitted,
                   numThreads, idleSem, yielded, pendingExc>>

NextDisc == Discover

SpecDisc == InitDisc /\ [][NextDisc]_vars

----------------------------------------------------------------------------
(* Properties of list_available_dates                                      *)

\* The dates year-month-day of the day-level prefixes of the tile that lie
\* within [start_date, end_date] in string order.
DatesInRange(path, row) ==
    {Date(t[1], t[2], t[3]) :
        t \in {x \in DaysOf(path, row, store) :
                  Between(start_date, Date(x[1], x[2], x[3]), end_date)}}

\* xs is in ascending order and holds no element twice
StrictlyAscending(xs) == \A i \in 1..(Len(xs) - 1) : StrLT(xs[i], xs[i + 1])

\* C1: when every listing call succeeds, list_available_dates returns exactly
\* the dates of the tile's day-level prefixes that lie within
\* [start_date, end_date], in ascending order and none of them twice.
C1_ExactSortedDates ==
    (pc = "returned" /\ lsNonzero = {} /\ lsOSError = {}) =>
        /\ Range(dates) = DatesInRange(paths[1], rows[1])
        /\ StrictlyAscending(dates)

\* A discovery that returned two dates and left a day of the tile out.
C1_Witness ==
    /\ pc = "returned" /\ lsNonzero = {} /\ lsOSError = {}
    /\ Len(dates) >= 2
    /\ Cardinality(DaysOf(paths[1], rows[1], store)) > Len(dates)

\* The prefix of the tile, of one of its years, of one of its months.
YearPrefix(path, row, y) == TilePrefix(path, row) \o y \o <<"/">>
MonthPrefix(path, row, y, m) == YearPrefix(path, row, y) \o m \o <<"/">>

\* The days of the tile whose three listings (tile, year, month) did not fail.
DaysListed(path, row) ==
    {t \in DaysOf(path, row, store) :
        {TilePrefix(path, row), YearPrefix(path, row, t[1]),
         MonthPrefix(path, row, t[1], t[2])} \cap (lsNonzero \cup lsOSError) = {}}

\* C4: a listing call that fails, by a non-zero status or because it cannot be
\* invoked, counts as an empty listing: list_available_dates raises nothing
\* and returns the dates in range under the prefixes whose listings succeeded.
C4_FailedListingIsEmpty ==
    pc # "call" =>
        /\ pc = "returned"
        /\ Range(dates) =
             {Date(t[1], t[2], t[3]) :
                 t \in {x \in DaysListed(paths[1], rows[1]) :
                           Between(start_date, Date(x[1], x[2], x[3]), end_date)}}

----------------------------------------------------------------------------
(* Properties of download_dea_data                                         *)

\* the notice of line 85 is printed: the task list is built, the downloads start
Started == \E k \in 1..Len(console) : console[k][1] = "start"

\* download_dea_data has returned or was left by an exception
Ended == pc \in {"done", "crashed"}

\* how often the notice <<kind, i>> of task i is printed
Count(kind, i) == Cardinality({k \in 1..Len(console) : console[k] = <<kind, i>>})

\* the tasks whose outcome run_download has reported (lines 63 and 65)
Reported == {i \in 1..N : Count("done", i) + Count("failed", i) > 0}

\* the pairs (task, outcome) that are reported
Reports ==
    {<<i, "done">> : i \in {j \in 1..N : Count("done", j) > 0}}
        \cup {<<i, "failed">> : i \in {j \in 1..N : Count("failed", j) > 0}}

\* Lines 93-95, the copies ending as outs says: the task at which the loop is
\* left by an exception, Len(outs) + 1 if it is not.
SeqStop(outs) ==
    IF \E i \in 1..Len(outs) : outs[i] = "oserror"
    THEN CHOOSE i \in 1..Len(outs) :
            outs[i] = "oserror" /\ \A j \in 1..(i - 1) : outs[j] # "oserror"
    ELSE Len(outs) + 1

\* Lines 93-95, the copies ending as outs says: the pairs (task, outcome)
\* that the sequential loop reports.
SeqReports(outs) ==
    {<<i, IF outs[i] = "ok" THEN "done" ELSE "failed">> : i \in 1..(SeqStop(outs) - 1)}

\* xs holds no value twice
NoRepeat(xs) == \A i, j \in 1..Len(xs) : i # j => xs[i] # xs[j]

\* C2: in both modes every task of the task list is attempted exactly once:
\* no task is started twice, and when the run has ended no task is left
\* unstarted.
C2_EveryTaskAttemptedOnce ==
    Started =>
        /\ \A i \in 1..N : Count("downloading", i) <= 1
        /\ Ended => \A i \in 1..N : Count("downloading", i) = 1

\* C3: when the copy of exactly one task fails, by a non-zero exit status or
\* because it cannot be invoked, the run that has ended has reported an
\* outcome for each of the N tasks, exactly one of them a failure.
C3_OneFailureIsIsolated ==
    (Started /\ Ended
        /\ Cardinality({i \in 1..N : copyResult[i] \in {"nonzero", "oserror"}}) = 1) =>
        /\ Reported = 1..N
        /\ Cardinality({i \in 1..N : Count("failed", i) > 0}) = 1
        /\ \A i \in 1..N : Count("done", i) + Count("failed", i) = 1

\* C5: the local destination of every task is
\* output_dir/path/row/year/month/day with path and row zero-padded to 3.
C5_PaddedDestination ==
    \A k \in 1..N :
        tasks[k].cmd.dst =
            JoinWith(<<output_dir, Zfill(tasks[k].path, 3), Zfill(tasks[k].row, 3)>>
                         \o SplitOn(tasks[k].date, "-"),
                     <<"/">>)

\* C6 as stated: whatever the lists paths and rows, no two tasks of the task
\* list have the same local destination.
C6_DistinctDestinations ==
    \A i, j \in 1..N : i # j => tasks[i].cmd.dst # tasks[j].cmd.dst

\* C6: when neither paths nor rows holds a value twice, no two tasks of the
\* task list have the same local destination, and so no two running tasks
\* write to the same destination.
C6_DistinctDestinationsOfDistinctTiles ==
    (NoRepeat(paths) /\ NoRepeat(rows)) => C6_DistinctDestinations

\* Two tasks of one path and one day, of different rows, run at once.
C6_Witness ==
    /\ Started
    /\ NoRepeat(paths) /\ NoRepeat(rows)
    /\ Cardinality(Running) = 2
    /\ tasks[1].path = tasks[2].path
    /\ tasks[1].date = tasks[2].date
    /\ tasks[1].row # tasks[2].row

\* C7: no error ends a run of download_dea_data: whatever the bucket holds
\* and however the listing and copy calls end, it is not left by an exception.
C7_NoErrorEndsRun == pc # "crashed"

\* C8: in concurrent mode the number of tasks that are Running is at most
\* max_workers at every point.
C8_RunningWithinMaxWorkers == multithread => Cardinality(Running) <= max_workers

\* More tasks than workers: max_workers of them run and another is queued.
C8_Witness ==
    /\ multithread
    /\ N > max_workers
    /\ Cardinality(Running) = max_workers
    /\ \E i \in 1..submitted : status[i] = "Pending"

\* C9: in concurrent mode, whenever download_dea_data has returned or has
\* left the executor's block, every task is Succeeded or Failed; and once
\* the tasks are being submitted, every copy ending, download_dea_data ends:
\* it returns, or a copy could not be invoked and its exception leaves it.
C9_WaitsForAllTasks ==
    /\ [](multithread /\ Ended => \A i \in 1..N : status[i] \in Terminal)
    /\ (pc = "submit") ~>
          (pc = "done" \/ (pc = "crashed" /\ \E i \in DOMAIN copyResult : Raises(i)))

\* The exception of the first future left the block of two tasks, of which
\* the other was not handed out by as_completed: both are terminal.
C9_Witness ==
    /\ multithread
    /\ pc = "crashed"
    /\ N = 2
    /\ Cardinality(yielded) = 1
    /\ \A i \in 1..N : status[i] \in Terminal

C11_ExceptionCancelsNoSibling ==
    /\ [](multithread => (pendingExc <=> \E i \in yielded : Raises(i)))
    /\ [](multithread /\ Ended =>
            \A i \in 1..N : status[i] \in Terminal /\ Count("downloading", i) = 1)
    /\ (multithread /\ pendingExc) ~>
          (pc = "crashed" /\ Started /\ \A i \in 1..N : status[i] \in Terminal)

\* The exception of task 1 has surfaced while a sibling is still queued.
C11_Witness ==
    /\ multithread
    /\ pc = "shutdown"
    /\ pendingExc
    /\ 1 \in yielded /\ Raises(1)
    /\ \E i \in 1..N : status[i] = "Pending"

\* the positions in the console of the notices of one kind
NoticesOf(kind) == {k \in 1..Len(console) : console[k][1] = kind}

\* The notices of line 74, one for each call of list_available_dates, in order.
IsScanNotice(n) == n[1] = "scan"
Scans == SelectSeq(console, IsScanNotice)

\* how often list_available_dates was called for the tile (path, row)
ScanCount(path, row) ==
    Cardinality({k \in NoticesOf("scan") : console[k][2] = path /\ console[k][3] = row})

\* No copy starts before the last discovery has finished and line 85 is reached.
NoCopyBeforeDiscoveryEnds ==
    /\ \A k \in NoticesOf("downloading") :
          /\ \A l \in NoticesOf("scan") \cup NoticesOf("nodata") \cup NoticesOf("found") : l < k
          /\ \E l \in NoticesOf("start") : l < k
    /\ ~Started => \A i \in DOMAIN status : status[i] = "Pending"

\* C12 as stated: list_available_dates runs exactly once for each tile
\* (path, row) of the lists, and no copy starts before the discovery of the
\* last tile has finished.
C12_DiscoveryOncePerTile ==
    /\ NoCopyBeforeDiscoveryEnds
    /\ \A k \in 1..Len(paths) : \A l \in 1..Len(rows) :
          /\ ScanCount(paths[k], rows[l]) <= 1
          /\ Started => ScanCount(paths[k], rows[l]) = 1

\* C12: list_available_dates runs once for each pass of the nested loops,
\* that is once for each pair of an element of paths and an element of rows,
\* in the order of the loops and one at a time: the notice of its result
\* precedes the next call. No copy starts before the last of these calls has
\* finished.
C12_DiscoveryOncePerLoopPass ==
    /\ NoCopyBeforeDiscoveryEnds
    /\ Len(Scans) <= Len(paths) * Len(rows)
    /\ Started => Len(Scans) = Len(paths) * Len(rows)
    /\ \A k \in 1..Len(Scans) : Scans[k] = <<"scan", PathAt(k), RowAt(k)>>
    /\ \A k \in NoticesOf("scan") :
          k < Len(console) =>
              /\ console[k + 1][1] \in {"nodata", "found"}
              /\ console[k + 1][2] = console[k][2]
              /\ console[k + 1][3] = console[k][3]

\* Two copies run after the tiles of two paths were scanned one after the other.
C12_Witness ==
    /\ Started
    /\ Len(paths) = 2 /\ paths[1] # paths[2]
    /\ Len(Scans) = Len(paths) * Len(rows)
    /\ Cardinality(Running) = 2

\* The notices of line 80, one for each tile that has dates, in order.
IsFoundNotice(n) == n[1] = "found"
Founds == SelectSeq(console, IsFoundNotice)

\* The tile, as a position in fs from j on, that the i-th task after the
\* tasks of the tiles before j was built for (lines 81-83).
RECURSIVE BlockOf(_, _, _)
BlockOf(fs, j, i) ==
    IF j > Len(fs) THEN 0
    ELSE IF i <= fs[j][4] THEN j
    ELSE BlockOf(fs, j + 1, i - fs[j][4])

\* The tasks are in the order produced: the tiles in the order of the loops,
\* paths outer and rows inner, the dates of a tile ascending.
TileMajorDateAscending ==
    /\ \A k \in 1..Len(Scans) :
          Scans[k] = <<"scan", paths[((k - 1) \div Len(rows)) + 1],
                               rows[((k - 1) % Len(rows)) + 1]>>
    /\ \A k \in NoticesOf("found") :
          k > 1 /\ console[k - 1] = <<"scan", console[k][2], console[k][3]>>
    /\ \A i \in 1..N :
          /\ BlockOf(Founds, 1, i) > 0
          /\ tasks[i].path = Founds[BlockOf(Founds, 1, i)][2]
          /\ tasks[i].row = Founds[BlockOf(Founds, 1, i)][3]
    /\ BlockOf(Founds, 1, N + 1) = 0
    /\ \A i \in 1..(N - 1) :
          BlockOf(Founds, 1, i) = BlockOf(Founds, 1, i + 1) =>
              StrLT(tasks[i].date, tasks[i + 1].date)

\* C13: in sequential mode the tasks run one at a time in the order produced,
\* tile-major and date-ascending within a tile: task i+1 does not start
\* before task i is Succeeded or Failed, and the notice [i/total] is printed
\* just before task i starts, total being the length of the task list.
C13_SequentialInOrder ==
    /\ TileMajorDateAscending
    /\ (Started /\ ~multithread) =>
          /\ Cardinality(Running) <= 1
          /\ \A i \in 1..(N - 1) : status[i + 1] # "Pending" => status[i] \in Terminal
          /\ \A k \in NoticesOf("downloading") :
                k > 1 /\ console[k - 1] = <<"progress", console[k][2], N>>
          /\ \A i \in 1..N : status[i] # "Pending" => Count("downloading", i) = 1

\* The second date of a tile is being copied after the first one has ended.
C13_Witness ==
    /\ Started /\ ~multithread
    /\ N = 2
    /\ status[1] \in Terminal /\ status[2] = "Running"
    /\ tasks[1].path = tasks[2].path /\ tasks[1].row = tasks[2].row
    /\ console[Len(console) - 1] = <<"progress", 2, 2>>

\* C14: every task is created Pending, and a step changes its state only
\* from Pending to Running or from Running to Succeeded or Failed: no task
\* ends without having run, and a task that is Succeeded or Failed stays so
\* (a Failed task is not retried).
C14_TaskStateMachine ==
    [][/\ DOMAIN status \subseteq DOMAIN status'
       /\ \A i \in DOMAIN status' :
            IF i \in DOMAIN status
            THEN \/ status'[i] = status[i]
                 \/ status[i] = "Pending" /\ status'[i] = "Running"
                 \/ status[i] = "Running" /\ status'[i] \in Terminal
            ELSE status'[i] = "Pending"]_vars

\* A run has ended in which a task failed after one attempt and the task
\* after it was then run.
C14_Witness ==
    /\ Started /\ Ended
    /\ N = 2
    /\ status[1] = "Failed" /\ Count("downloading", 1) = 1
    /\ status[2] = "Succeeded"

\* d is YYYY-MM-DD and names a day of the calendar
IsCalendarDate(d) ==
    /\ Len(SplitOn(d, "-")) = 3
    /\ Len(SplitOn(d, "-")[1]) = 4 /\ IsDigits(SplitOn(d, "-")[1])
    /\ Len(SplitOn(d, "-")[2]) = 2 /\ IsDigits(SplitOn(d, "-")[2])
    /\ Len(SplitOn(d, "-")[3]) = 2 /\ IsDigits(SplitOn(d, "-")[3])
    /\ IntOf(SplitOn(d, "-")[1]) >= 1
    /\ IntOf(SplitOn(d, "-")[2]) \in 1..12
    /\ IntOf(SplitOn(d, "-")[3]) \in
          1..DaysInMonth(IntOf(SplitOn(d, "-")[1]), IntOf(SplitOn(d, "-")[2]))

\* C15: every date that list_available_dates returns is a valid calendar
\* date of the form YYYY-MM-DD and lies within [start_date, end_date],
\* whatever year, month and day keys the listings hold.
C15_ReturnedDatesAreCalendarDates ==
    pc = "returned" =>
        \A i \in 1..Len(dates) :
            IsCalendarDate(dates[i]) /\ Between(start_date, dates[i], end_date)

\* Some object of the bucket lies under prefix: prefix is a sub-directory.
IsSubDirectory(prefix) ==
    \E o \in store : StartsWith(ObjectUrl(o), prefix) /\ Len(ObjectUrl(o)) > Len(prefix)

\* The day-level prefix of the tile for the date d.
DayPrefixOf(path, row, d) ==
    TilePrefix(path, row) \o JoinWith(SplitOn(d, "-"), <<"/">>) \o <<"/">>

\* C16: only entries of a listing that are sub-directories are taken as
\* keys: every year or month prefix that list_available_dates goes on to
\* list is a sub-directory of the bucket, and so is the day prefix of every
\* date it returns; an object that lies beside the sub-directories gives
\* neither a key nor a date.
C16_OnlySubDirectoriesAreKeys ==
    pc \in {"returned", "raised"} =>
        /\ \A k \in 2..Len(lsCalls) : IsSubDirectory(lsCalls[k])
        /\ \A i \in 1..Len(dates) : IsSubDirectory(DayPrefixOf(paths[1], rows[1], dates[i]))

\* The month 2025/01 of the tile 007/080 holds the object 02 beside the day
\* 03, both within the range: only 2025-01-03 is returned.
C16_Witness ==
    /\ pc = "returned"
    /\ paths[1] = P7
    /\ <<T007, T080, Y2025, M01, <<"0", "2">>>> \in store
    /\ Between(start_date, Date(Y2025, M01, <<"0", "2">>), end_date)
    /\ dates = <<Date(Y2025, M01, D03)>>

\* how many tasks the tiles with dates have contributed (line 80: len(dates))
RECURSIVE FoundTotal(_)
FoundTotal(fs) == IF fs = <<>> THEN 0 ELSE fs[1][4] + FoundTotal(Tail(fs))

\* C17: a tile for which discovery yields no dates contributes no task and
\* is no error: its scan is followed by the no-data notice, the run is not
\* left but goes on with the next tile; the task list holds exactly the
\* tasks of the tiles with dates; once the downloads start every tile has
\* been scanned, and when download_dea_data returns every task has been
\* executed.
C17_EmptyTileIsNoError ==
    /\ \A k \in NoticesOf("nodata") :
          /\ k > 1 /\ console[k - 1] = <<"scan", console[k][2], console[k][3]>>
          /\ k = Len(console) => pc = "scan" /\ dates = <<>>
          /\ k < Len(console) => console[k + 1][1] \in {"scan", "start"}
    /\ N = FoundTotal(Founds)
    /\ Cardinality(NoticesOf("nodata")) + Len(Founds) = tileIdx
    /\ Started => tileIdx = Len(paths) * Len(rows)
    /\ pc = "done" =>
          \A i \in 1..N : status[i] \in Terminal /\ Count("downloading", i) = 1

\* A run has returned in which the first tile had no dates and the task of
\* a later tile was copied.
C17_Witness ==
    /\ pc = "done"
    /\ console[2][1] = "nodata"
    /\ N >= 1
    /\ \A i \in 1..N : status[i] = "Succeeded"

\* The objects of the bucket under the tile (path, row).
TileObjects(path, row) ==
    {o \in store : Len(o) >= 3 /\ o[1] = Zfill(path, 3) /\ o[2] = Zfill(row, 3)}

\* The year sub-directories of the tile that pass the test of line 33, and
\* the month sub-directories of these that pass the test of line 38.
KeptYears(path, row) ==
    {o[3] : o \in {x \in TileObjects(path, row) :
                      Len(x) >= 4 /\ KeepYear(x[3], start_date, end_date)}}
KeptMonths(path, row) ==
    {<<o[3], o[4]>> : o \in {x \in TileObjects(path, row) :
                                Len(x) >= 5 /\ KeepYear(x[3], start_date, end_date)
                                /\ KeepMonth(x[3], x[4], start_date, end_date)}}

\* The keys that the listed prefix c adds to the prefix of the tile.
KeysOfCall(path, row, c) ==
    SplitOn(SubSeq(c, Len(TilePrefix(path, row)) + 1, Len(c) - 1), "/")

\* C18: in one call of list_available_dates no prefix is listed twice; a
\* prefix that is listed after the tile's is that of a year within
\* [start_date[:4], end_date[:4]], or that of a month of such a year with
\* year-month within [start_date[:7], end_date[:7]]; when no listing fails
\* the calls number 1 + kept years + kept months, and every day of the tile
\* whose date lies within [start_date, end_date] is returned.
C18_ListingIsPruned ==
    pc \in {"returned", "raised"} =>
        /\ NoRepeat(lsCalls)
        /\ lsCalls[1] = TilePrefix(paths[1], rows[1])
        /\ \A k \in 2..Len(lsCalls) :
              /\ StartsWith(lsCalls[k], TilePrefix(paths[1], rows[1]))
              /\ Len(KeysOfCall(paths[1], rows[1], lsCalls[k])) \in {1, 2}
              /\ Between(Slice(start_date, 4), KeysOfCall(paths[1], rows[1], lsCalls[k])[1],
                         Slice(end_date, 4))
              /\ Len(KeysOfCall(paths[1], rows[1], lsCalls[k])) = 2 =>
                    Between(Slice(start_date, 7),
                            JoinWith(KeysOfCall(paths[1], rows[1], lsCalls[k]), <<"-">>),
                            Slice(end_date, 7))
        /\ (pc = "returned" /\ lsNonzero = {} /\ lsOSError = {}) =>
              /\ Len(lsCalls) = 1 + Cardinality(KeptYears(paths[1], rows[1]))
                                  + Cardinality(KeptMonths(paths[1], rows[1]))
              /\ DatesInRange(paths[1], rows[1]) \subseteq Range(dates)

\* A discovery that listed a month and a day of it, and left unlisted a
\* year or a month of the tile that is out of the bounds.
C18_Witness ==
    /\ pc = "returned" /\ lsNonzero = {} /\ lsOSError = {}
    /\ Len(lsCalls) >= 3
    /\ dates # <<>>
    /\ \E o \in TileObjects(paths[1], rows[1]) :
          Len(o) >= 5 /\ <<o[3], o[4]>> \notin KeptMonths(paths[1], rows[1])

\* C19: the source of every task is base_url/path/row/y/m/d/ with path and
\* row zero-padded to 3 digits, for the tile and the date the task was built
\* for: the prefix of the tile that was listed followed by a year, a month
\* and a day key; it is a day-level sub-directory of the bucket, and its
\* date lies within [start_date, end_date]. No other prefix is ever copied.
C19_SourceIsDiscoveredDayPrefix ==
    \A k \in 1..N :
        /\ tasks[k].cmd.src =
              JoinWith(<<base_url, Zfill(tasks[k].path, 3), Zfill(tasks[k].row, 3)>>
                           \o SplitOn(tasks[k].date, "-"),
                       <<"/">>) \o <<"/">>
        /\ tasks[k].cmd.src = tasks[k].s3_path
        /\ Len(SplitOn(tasks[k].date, "-")) = 3
        /\ StartsWith(tasks[k].cmd.src, TilePrefix(tasks[k].path, tasks[k].row))
        /\ IsSubDirectory(tasks[k].cmd.src)
        /\ Between(start_date, tasks[k].date, end_date)
        /\ \E l \in 1..Len(paths) : paths[l] = tasks[k].path
        /\ \E l \in 1..Len(rows) : rows[l] = tasks[k].row

\* The copy of a day of the tile given as path 7, row 80 runs, while the
\* bucket holds a day of that tile that is out of the range.
C19_Witness ==
    /\ Started
    /\ \E k \in 1..N :
          status[k] = "Running" /\ tasks[k].path = P7 /\ tasks[k].row = R80
    /\ \E o \in store : o[1] = T007 /\ o[2] = T080
                        /\ ~Between(start_date, Date(o[3], o[4], o[5]), end_date)

====
